---- MODULE Spec2Model ----
(***************************************************************************)
(* Model of src/base/integrator.cpp: the progressive render driver.        *)
(*                                                                         *)
(* One host thread runs ProgressiveIntegrator::Instance::render(): for     *)
(* every camera it prepares the film, resets the Display, runs             *)
(* _render_one_camera() (sampler reset, kernel compile, the shutter /      *)
(* sub-sample dispatch loop with its commit cadence, the final barrier),   *)
(* drains the Display, downloads, synchronizes, releases and saves.        *)
(* The device side of the command stream is the queue of deferred host     *)
(* callbacks (`pending`), executed in submission order by RunCallback.     *)
(* Kernel dispatches have no host-visible effect before a barrier, so the  *)
(* stream keeps only the callbacks; a barrier waits for the queue to be    *)
(* empty.                                                                  *)
(***************************************************************************)
EXTENDS Integers, Sequences, FiniteSets

(***************************************************************************)
(* Program constants.                                                      *)
(***************************************************************************)
\* integrator.cpp:108  the cadence used when no live Display is watching
DefaultDispatchesPerCommit == 32
\* integrator.cpp:135  std::clamp(..., 1u, 65535u)
ClampLo == 1
ClampHi == 65535
\* integrator.cpp:135  property_uint_or_default("display_interval", 1u)
DefaultDisplayInterval == 1

\* _display_interval is uint16_t.  The `uint` counters of the loop are 32 bits
\* wide and stay below every camera's spp, far from wrapping.
UInt16 == 2^16

(***************************************************************************)
(* Bounds of the model.                                                    *)
(***************************************************************************)
\* samples per pixel of the long camera (two commits at the default cadence)
BigSpp == 64
\* a configuration is explored only if no camera can commit more often
MaxCommits == 6

(***************************************************************************)
(* Inputs: scene descriptions.                                             *)
(***************************************************************************)
\* the "display_interval" property of the node description; Absent = not given
Absent == 0 - 1
DescIntervals == {Absent, 0, 1, 2, 5, 33, 65535, 65536, 100000, 2147483647}

RECURSIVE SumSpp(_)
\* the camera node derives its spp from its shutter samples
SumSpp(ss) == IF ss = <<>> THEN 0 ELSE Head(ss).spp + SumSpp(Tail(ss))

Shutter(t, w, n) == [time |-> t, weight |-> w, spp |-> n]

Camera(f, x, y, ss) ==
    [file |-> f, resolution |-> [x |-> x, y |-> y],
     spp |-> SumSpp(ss), shutter_samples |-> ss]

\* 4x4 at 4 spp with one shutter sample
CamA == Camera("a.exr", 4, 4, <<Shutter(0, 1, 4)>>)
\* three shutter samples, the middle one with no sub-sample
CamB == Camera("b.exr", 3, 2, <<Shutter(0, 1, 1), Shutter(1, 2, 0), Shutter(2, 1, 5)>>)
\* a long exposure: enough dispatches for two commits at the default cadence
CamC == Camera("c.exr", 2, 2, <<Shutter(0, 1, 40), Shutter(3, 2, BigSpp - 40)>>)

Scenes == { <<CamA, CamB>>, <<CamB, CamA>>, <<CamC>> }

RECURSIVE MaxSppOf(_)
MaxSppOf(cams) ==
    IF cams = <<>> THEN 0
    ELSE LET m == MaxSppOf(Tail(cams))
         IN IF Head(cams).spp > m THEN Head(cams).spp ELSE m

(***************************************************************************)
(* ProgressiveIntegrator::ProgressiveIntegrator  (integrator.cpp:132-136)  *)
(***************************************************************************)
\* desc->property_uint_or_default("display_interval", 1u)
property_uint_or_default(v, dflt) == IF v = Absent THEN dflt ELSE v

\* std::clamp(v, lo, hi) == (v < lo) ? lo : (hi < v) ? hi : v
clamp_nolow(v, lo, hi) == IF hi < v THEN hi ELSE v
clamp(v, lo, hi) == IF v < lo THEN lo ELSE IF hi < v THEN hi ELSE v

\* static_cast<uint16_t>(x)
cast_uint16(x) == x % UInt16

\* the _display_interval member initializer
InitDisplayInterval(v) ==
    cast_uint16(clamp(property_uint_or_default(v, DefaultDisplayInterval),
                      ClampLo, ClampHi))

VARIABLES
    has_lighting,           \* pipeline.has_lighting()
    li_overridden,          \* the Instance is of a class that overrides Li
    light_sampler,          \* Integrator::Instance::_light_sampler: "null", "instance"
    builds,                 \* how often each build / make_unique has run
    error,                  \* message of the fatal error raised, "" if none
    cameras,                \* pipeline().camera(i), i = 0 .. camera_count-1
    desc_display,           \* the "display" property
    desc_display_interval,  \* the "display_interval" property (or Absent)
    display_interval,       \* ProgressiveIntegrator::_display_interval
    display,                \* Instance::_display is non-null
    pc,                     \* position of the host thread
    i,                      \* render(): camera index
    film,                   \* per camera: "fresh", "prepared", "released"
    display_film,           \* camera the Display was last reset against, -1 = none
    sampler,                \* arguments of the last sampler()->reset
    pipeline_time,          \* argument of the last pipeline().update
    s_idx,                  \* index of the current shutter sample (1-based)
    sub_i,                  \* inner loop variable i
    dispatch_count,
    sample_id,
    dispatched,             \* dispatches submitted for the current camera
    last,                   \* what the last loop iteration did
    close_hist,             \* should_close() in this loop: "never", "kept", "broken"
    pending,                \* deferred progress callbacks not yet executed
    progress,               \* the loop-local ProgressBar
    updates,                \* times passed to pipeline().update in this loop
    commits,                \* the commits of this loop, in order
    deliveries,             \* progress.update calls of this loop, in order
    events,                 \* render()'s steps so far, as <<camera, step>>
    saved,                  \* cameras whose image has been saved
    idle_result,            \* last Display::idle() answer: "none", "true", "false"
    idle_polls              \* parity of the number of idle() polls of this camera

vars == <<has_lighting, li_overridden, light_sampler, builds, error, cameras, desc_display, desc_display_interval, display_interval, display,
          pc, i, film, display_film, sampler, pipeline_time, s_idx, sub_i,
          dispatch_count, sample_id, dispatched, last, close_hist, pending,
          progress, updates, commits, deliveries, events, saved, idle_result,
          idle_polls>>

camera_count == Len(cameras)
\* pipeline().camera(i)
camera == cameras[i + 1]
CurShutter == camera.shutter_samples[s_idx]

NoSampler == [resolution |-> [x |-> 0, y |-> 0], pixel_count |-> 0, spp |-> 0]
NoIteration ==
    [valid |-> FALSE, sample |-> 0, time |-> 0, weight |-> 0,
     printer_nonempty |-> FALSE, retrieved |-> FALSE,
     should_close |-> FALSE, cadence |-> 0, count |-> 0,
     committed |-> FALSE, update_called |-> FALSE, update_result |-> FALSE,
     progress_mode |-> "none", p |-> [num |-> 0, den |-> 1], submitted |-> <<>>]

(***************************************************************************)
(* Integrator::Instance::Instance and ProgressiveIntegrator::Instance::    *)
(* Instance  (integrator.cpp:21-35)                                        *)
(***************************************************************************)
\* lines 24-26: light_sampler()->build runs iff pipeline.has_lighting()
LightSamplerBuiltAlways(hl) == TRUE
LightSamplerBuilt(hl) == hl

\* lines 32-34: make_unique<Display> runs iff node->display_enabled()
DisplayBuiltAlways(enabled) == TRUE
DisplayBuilt(enabled) == enabled

\* the lowest cadence any dispatch of this configuration can see
MinCadence(d, iv) ==
    IF d /\ iv < DefaultDispatchesPerCommit THEN iv ELSE DefaultDispatchesPerCommit

(***************************************************************************)
(* State after construction of the node and of its Instance                *)
(* (integrator.cpp:28-35, 132-136), at the entry of render().              *)
(***************************************************************************)
Init ==
    /\ \E sc \in Scenes, d \in BOOLEAN, v \in DescIntervals,
          hl \in BOOLEAN, ov \in BOOLEAN :
         /\ MaxSppOf(sc) <= MaxCommits * MinCadence(d, InitDisplayInterval(v))
         /\ cameras = sc
         /\ desc_display = d
         /\ desc_display_interval = v
         /\ has_lighting = hl
         /\ li_overridden = ov
         /\ display_interval = InitDisplayInterval(v)
         /\ light_sampler = IF LightSamplerBuilt(hl) THEN "instance" ELSE "null"
         /\ display = DisplayBuilt(d)
         /\ builds = [sampler |-> 1,
                      light_sampler |-> IF LightSamplerBuilt(hl) THEN 1 ELSE 0,
                      display |-> IF DisplayBuilt(d) THEN 1 ELSE 0]
         /\ film = [c \in 0 .. Len(sc) - 1 |-> "fresh"]
    /\ error = ""
    /\ pc = "render"
    /\ i = 0
    /\ display_film = -1
    /\ sampler = NoSampler
    /\ pipeline_time = -1
    /\ s_idx = 1
    /\ sub_i = 0
    /\ dispatch_count = 0
    /\ sample_id = 0
    /\ dispatched = <<>>
    /\ last = NoIteration
    /\ close_hist = "never"
    /\ pending = <<>>
    /\ progress = [value |-> [num |-> 0, den |-> 1], done |-> FALSE, late |-> FALSE]
    /\ updates = <<>>
    /\ commits = <<>>
    /\ deliveries = <<>>
    /\ events = <<>>
    /\ saved = {}
    /\ idle_result = "none"
    /\ idle_polls = 0

(***************************************************************************)
(* ProgressiveIntegrator::Instance::render  (integrator.cpp:39-56)         *)
(***************************************************************************)
Log(step) == Append(events, <<i, step>>)

\* line 41: the loop condition  i < pipeline().camera_count()
CameraLoopCondOffByOne(k) == k < camera_count - 1
CameraLoopCond(k) == k < camera_count

\* lines 41-45: enter the body for camera i and prepare its film
Prepare ==
    /\ pc = "render"
    /\ CameraLoopCond(i)
    /\ film' = [film EXCEPT ![i] = "prepared"]
    /\ events' = Log("prepare")
    /\ idle_result' = "none"
    /\ idle_polls' = 0
    /\ pc' = "display_reset"
    /\ UNCHANGED <<has_lighting, li_overridden, light_sampler, builds, error,
                   updates, commits, deliveries,
                   cameras, desc_display, desc_display_interval, display_interval,
                   display, i, display_film, sampler, pipeline_time, s_idx, sub_i,
                   dispatch_count, sample_id, dispatched, last, close_hist,
                   pending, progress, saved>>

\* line 41 failing: render() returns
RenderReturn ==
    /\ pc = "render"
    /\ ~CameraLoopCond(i)
    /\ pc' = "done"
    /\ UNCHANGED <<has_lighting, li_overridden, light_sampler, builds, error,
                   updates, commits, deliveries,
                   cameras, desc_display, desc_display_interval, display_interval,
                   display, i, film, display_film, sampler, pipeline_time, s_idx,
                   sub_i, dispatch_count, sample_id, dispatched, last, close_hist,
                   pending, progress, events, saved, idle_result, idle_polls>>

\* line 46: if (_display) { _display->reset(command_buffer, camera->film()); }
DisplayReset ==
    /\ pc = "display_reset"
    /\ IF display
         THEN /\ display_film' = i
              /\ events' = Log("display_reset")
         ELSE UNCHANGED <<display_film, events>>
    /\ pc' = "sampler_reset"
    /\ UNCHANGED <<has_lighting, li_overridden, light_sampler, builds, error,
                   updates, commits, deliveries,
                   cameras, desc_display, desc_display_interval, display_interval,
                   display, i, film, sampler, pipeline_time, s_idx, sub_i,
                   dispatch_count, sample_id, dispatched, last, close_hist,
                   pending, progress, saved, idle_result, idle_polls>>

(***************************************************************************)
(* ProgressiveIntegrator::Instance::_render_one_camera                     *)
(* (integrator.cpp:58-125)                                                 *)
(***************************************************************************)
\* lines 61-66: the arguments of sampler()->reset for camera `cam`
SamplerResetArgsFirstCamera(cam) ==
    [resolution |-> cameras[1].resolution,
     pixel_count |-> cameras[1].resolution.x * cameras[1].resolution.y,
     spp |-> cameras[1].spp]
SamplerResetArgs(cam) ==
    [resolution |-> cam.resolution,
     pixel_count |-> cam.resolution.x * cam.resolution.y,
     spp |-> cam.spp]

\* lines 61-68: sampler reset, printer reset, barrier
SamplerReset ==
    /\ pc = "sampler_reset"
    /\ pending = <<>>
    /\ sampler' = SamplerResetArgs(camera)
    /\ events' = Log("loop_begin")
    /\ pc' = "compile"
    /\ UNCHANGED <<has_lighting, li_overridden, light_sampler, builds, error,
                   updates, commits, deliveries,
                   cameras, desc_display, desc_display_interval, display_interval,
                   display, i, film, display_film, pipeline_time, s_idx, sub_i,
                   dispatch_count, sample_id, dispatched, last, close_hist,
                   pending, progress, saved, idle_result, idle_polls>>

\* lines 127-130: the base Li raises LUISA_ERROR_WITH_LOCATION, which does not
\* return, whatever its arguments
LiReturningBlack(cam, frame_index, pixel_id, time) ==
    [returns |-> TRUE, error |-> ""]
Li(cam, frame_index, pixel_id, time) ==
    [returns |-> FALSE, error |-> "ProgressiveIntegrator::Li() is not implemented."]

\* line 94: progress.update(0.)
ProgressZero == [num |-> 0, den |-> 1]

\* line 95: auto dispatch_count = 0u
CarriedDispatchCount == dispatch_count
InitialDispatchCount == 0

\* lines 77-96: the kernel is traced and compiled, which calls Li on the
\* symbolic frame index, pixel and time (line 80); then the barrier, a fresh
\* ProgressBar with update(0.), dispatch_count = 0, sample_id = 0
Compile ==
    /\ pc = "compile"
    /\ pending = <<>>
    /\ LET L == Li(camera, "frame_index", "pixel_id", "time")
       IN IF li_overridden \/ L.returns
            THEN /\ progress' = [value |-> ProgressZero, done |-> FALSE,
                                  late |-> FALSE]
                 /\ deliveries' = <<[p |-> ProgressZero, via |-> "sync"]>>
                 /\ commits' = <<>>
                 /\ updates' = <<>>
                 /\ dispatch_count' = InitialDispatchCount
                 /\ sample_id' = 0
                 /\ dispatched' = <<>>
                 /\ last' = NoIteration
                 /\ close_hist' = "never"
                 /\ s_idx' = 1
                 /\ sub_i' = 0
                 /\ pc' = "for_s"
                 /\ error' = error
            ELSE /\ pc' = "fatal"
                 /\ error' = L.error
                 /\ UNCHANGED <<progress, dispatch_count, sample_id, dispatched,
                                last, close_hist, s_idx, sub_i, updates, commits,
                                deliveries>>
    /\ UNCHANGED <<has_lighting, li_overridden, light_sampler, builds,
                   cameras, desc_display, desc_display_interval, display_interval,
                   display, i, film, display_film, sampler, pipeline_time,
                   pending, events, saved, idle_result, idle_polls>>

\* line 98: the time passed to pipeline().update for shutter sample s
PipelineUpdateArgFirst(s) == camera.shutter_samples[1].time
PipelineUpdateArg(s) == s.time

\* lines 97-98: next shutter sample: pipeline().update(command_buffer, s.point.time)
PipelineUpdate ==
    /\ pc = "for_s"
    /\ s_idx <= Len(camera.shutter_samples)
    /\ pipeline_time' = PipelineUpdateArg(CurShutter)
    /\ updates' = Append(updates, PipelineUpdateArg(CurShutter))
    /\ sub_i' = 0
    /\ pc' = "for_i"
    /\ UNCHANGED <<has_lighting, li_overridden, light_sampler, builds, error,
                   commits, deliveries,
                   cameras, desc_display, desc_display_interval, display_interval,
                   display, i, film, display_film, sampler, s_idx,
                   dispatch_count, sample_id, dispatched, last, close_hist,
                   pending, progress, events, saved, idle_result, idle_polls>>

\* line 99: the loop condition  i < s.spp
InnerLoopCond(n, spp) == n < spp

\* line 100: render(sample_id++, ...) passes the value before the increment
SampleArgPreIncrement(sid) == sid + 1
SampleArg(sid) == sid

\* lines 105-108: the cadence, given what should_close() answered
\* (should_close() is only called when _display is non-null)
dispatches_per_commit_ignoring_display(c) ==
    IF ~c THEN display_interval ELSE DefaultDispatchesPerCommit
dispatches_per_commit(c) ==
    IF display /\ ~c THEN display_interval ELSE DefaultDispatchesPerCommit

\* line 109: ++dispatch_count % dispatches_per_commit == 0u
CommitDue(cnt, dpc) == cnt % dpc = 0

\* line 112: _display && _display->update(...): update is called iff _display
UpdateAttemptedUnlessClosed(c) == display /\ ~c
UpdateAttempted(c) == display

\* Display::update(command_buffer, sample_id): what it may answer.  It answers
\* true only when it consumed new data, which it does behind a barrier on the
\* command stream, so no deferred callback is then still pending.
DisplayUpdateResults(pend) == IF pend = <<>> THEN BOOLEAN ELSE {FALSE}

\* Display::should_close(): any answer at any call
ShouldCloseResults == BOOLEAN

CloseHistAfter(h, c) ==
    IF c THEN (IF h = "never" THEN "kept" ELSE h)
         ELSE (IF h = "kept" THEN "broken" ELSE h)

\* line 100: the time and the weight passed to the kernel for shutter sample s
TimeArg(s) == s.time
WeightArgUnweighted(s) == 1
WeightArg(s) == s.weight

\* lines 102-104: a retrieval is enqueued iff the printer is not empty
RetrievesAtCommitOnly(nonempty, commit) == nonempty /\ commit
Retrieves(nonempty, commit) == nonempty

\* line 111: auto p = sample_id / static_cast<double>(spp), kept as a fraction
ProgressValue(sid, spp) == [num |-> sid, den |-> spp]

\* lines 112-116: progress.update(p) at once iff update was called and answered
\* true, as a callback on the stream otherwise
ProgressModeSwapped(called, r) == IF called /\ r THEN "deferred" ELSE "sync"
ProgressMode(called, r) == IF called /\ r THEN "sync" ELSE "deferred"

\* lines 99-117: one iteration of the inner loop
Dispatch ==
    /\ pc = "for_i"
    /\ InnerLoopCond(sub_i, CurShutter.spp)
    /\ \E nonempty \in BOOLEAN,
          c \in (IF display THEN ShouldCloseResults ELSE {FALSE}) :
         LET arg == SampleArg(sample_id)
             sid == sample_id + 1
             dpc == dispatches_per_commit(c)
             cnt == dispatch_count + 1
             commit == CommitDue(cnt, dpc)
             called == commit /\ UpdateAttempted(c)
             retrieve == Retrieves(nonempty, commit)
             p == ProgressValue(sid, camera.spp)
         IN \E r \in (IF called THEN DisplayUpdateResults(pending) ELSE {FALSE}) :
              LET mode == IF commit THEN ProgressMode(called, r) ELSE "none"
              IN
              /\ sample_id' = sid
              /\ dispatched' = Append(dispatched,
                     [id |-> arg, time |-> TimeArg(CurShutter),
                      weight |-> WeightArg(CurShutter),
                      pipeline_time |-> pipeline_time])
              /\ dispatch_count' = IF commit THEN 0 ELSE cnt
              /\ close_hist' = IF display THEN CloseHistAfter(close_hist, c)
                                          ELSE close_hist
              /\ progress' = IF mode = "sync"
                               THEN [progress EXCEPT !.value = p]
                               ELSE progress
              /\ deliveries' = IF mode = "sync"
                                 THEN Append(deliveries, [p |-> p, via |-> "sync"])
                                 ELSE deliveries
              /\ pending' = IF mode = "deferred"
                              THEN Append(pending, p)
                              ELSE pending
              /\ commits' = IF commit
                              THEN Append(commits,
                                     [k |-> Len(dispatched) + 1, called |-> called,
                                      consumed |-> r, mode |-> mode, p |-> p])
                              ELSE commits
              /\ last' = [valid |-> TRUE, sample |-> arg,
                          time |-> TimeArg(CurShutter),
                          weight |-> WeightArg(CurShutter),
                          printer_nonempty |-> nonempty, retrieved |-> retrieve,
                          should_close |-> c, cadence |-> dpc, count |-> cnt,
                          committed |-> commit, update_called |-> called,
                          update_result |-> r,
                          progress_mode |-> mode, p |-> p,
                          submitted |->
                              <<"dispatch">>
                              \o (IF retrieve THEN <<"retrieve">> ELSE <<>>)
                              \o (IF called THEN <<"display_update">> ELSE <<>>)
                              \o (IF mode = "deferred" THEN <<"callback">>
                                                       ELSE <<>>)]
    /\ sub_i' = sub_i + 1
    /\ UNCHANGED <<has_lighting, li_overridden, light_sampler, builds, error,
                   updates,
                   cameras, desc_display, desc_display_interval, display_interval,
                   display, pc, i, film, display_film, sampler, pipeline_time,
                   s_idx, events, saved, idle_result, idle_polls>>

\* line 99 failing: the inner loop ends, on to the next shutter sample
ShutterDone ==
    /\ pc = "for_i"
    /\ ~InnerLoopCond(sub_i, CurShutter.spp)
    /\ s_idx' = s_idx + 1
    /\ pc' = "for_s"
    /\ UNCHANGED <<has_lighting, li_overridden, light_sampler, builds, error,
                   updates, commits, deliveries,
                   cameras, desc_display, desc_display_interval, display_interval,
                   display, i, film, display_film, sampler, pipeline_time, sub_i,
                   dispatch_count, sample_id, dispatched, last, close_hist,
                   pending, progress, events, saved, idle_result, idle_polls>>

\* lines 120-121: the final barrier, then progress.done(); the loop returns,
\* and the records of its updates, commits and deliveries end with it
FinalSyncWithoutBarrier ==
    /\ pc = "for_s"
    /\ s_idx > Len(camera.shutter_samples)
    /\ progress' = [progress EXCEPT !.done = TRUE]
    /\ updates' = <<>>
    /\ commits' = <<>>
    /\ deliveries' = <<>>
    /\ events' = Log("loop_barrier")
    /\ pc' = "drain"
    /\ UNCHANGED <<has_lighting, li_overridden, light_sampler, builds, error,
                   cameras, desc_display, desc_display_interval, display_interval,
                   display, i, film, display_film, sampler, pipeline_time, s_idx,
                   sub_i, dispatch_count, sample_id, dispatched, last, close_hist,
                   pending, saved, idle_result, idle_polls>>
FinalSync ==
    /\ pc = "for_s"
    /\ s_idx > Len(camera.shutter_samples)
    /\ pending = <<>>
    /\ progress' = [progress EXCEPT !.done = TRUE]
    /\ updates' = <<>>
    /\ commits' = <<>>
    /\ deliveries' = <<>>
    /\ events' = Log("loop_barrier")
    /\ pc' = "drain"
    /\ UNCHANGED <<has_lighting, li_overridden, light_sampler, builds, error,
                   cameras, desc_display, desc_display_interval, display_interval,
                   display, i, film, display_film, sampler, pipeline_time, s_idx,
                   sub_i, dispatch_count, sample_id, dispatched, last, close_hist,
                   pending, saved, idle_result, idle_polls>>

\* a stream that runs the callback submitted last first
RunCallbackLastFirst ==
    /\ pending # <<>>
    /\ progress' = [value |-> pending[Len(pending)], done |-> progress.done,
                    late |-> progress.late \/ progress.done]
    /\ deliveries' = Append(deliveries,
                            [p |-> pending[Len(pending)], via |-> "callback"])
    /\ pending' = SubSeq(pending, 1, Len(pending) - 1)
    /\ UNCHANGED <<has_lighting, li_overridden, light_sampler, builds, error,
                   updates, commits,
                   cameras, desc_display, desc_display_interval, display_interval,
                   display, pc, i, film, display_film, sampler, pipeline_time,
                   s_idx, sub_i, dispatch_count, sample_id, dispatched, last,
                   close_hist, events, saved, idle_result, idle_polls>>

\* line 115: a deferred callback runs on the stream, in submission order:
\* progress.update(p)
RunCallback ==
    /\ pending # <<>>
    /\ progress' = [value |-> Head(pending), done |-> progress.done,
                    late |-> progress.late \/ progress.done]
    /\ deliveries' = Append(deliveries, [p |-> Head(pending), via |-> "callback"])
    /\ pending' = Tail(pending)
    /\ UNCHANGED <<has_lighting, li_overridden, light_sampler, builds, error,
                   updates, commits,
                   cameras, desc_display, desc_display_interval, display_interval,
                   display, pc, i, film, display_film, sampler, pipeline_time,
                   s_idx, sub_i, dispatch_count, sample_id, dispatched, last,
                   close_hist, events, saved, idle_result, idle_polls>>

(***************************************************************************)
(* render(), after the loop  (integrator.cpp:48-54)                        *)
(***************************************************************************)
\* Display::idle(command_buffer): any answer at any call
IdleResults == BOOLEAN

\* line 48: the loop goes round again iff _display && _display->idle(...)
DrainContinuesWhileNotIdle(r) == display /\ ~r
DrainContinues(r) == display /\ r

\* line 48: one evaluation of the while condition
DrainPoll ==
    /\ pc = "drain"
    /\ IF display
         THEN \E r \in IdleResults :
                /\ idle_result' = IF r THEN "true" ELSE "false"
                /\ idle_polls' = 1 - idle_polls
                /\ IF DrainContinues(r)
                     THEN pc' = "drain" /\ events' = events
                     ELSE pc' = "download" /\ events' = Log("drain")
         ELSE /\ pc' = "download"
              /\ events' = Log("drain")
              /\ UNCHANGED <<idle_result, idle_polls>>
    /\ UNCHANGED <<has_lighting, li_overridden, light_sampler, builds, error,
                   updates, commits, deliveries,
                   cameras, desc_display, desc_display_interval, display_interval,
                   display, i, film, display_film, sampler, pipeline_time, s_idx,
                   sub_i, dispatch_count, sample_id, dispatched, last, close_hist,
                   pending, progress, saved>>

\* lines 49-50: the pixel buffer and film()->download
DownloadThenRelease ==
    /\ pc = "download"
    /\ events' = Log("download")
    /\ pc' = "release"
    /\ UNCHANGED <<has_lighting, li_overridden, light_sampler, builds, error,
                   updates, commits, deliveries,
                   cameras, desc_display, desc_display_interval, display_interval,
                   display, i, film, display_film, sampler, pipeline_time, s_idx,
                   sub_i, dispatch_count, sample_id, dispatched, last, close_hist,
                   pending, progress, saved, idle_result, idle_polls>>
Download ==
    /\ pc = "download"
    /\ events' = Log("download")
    /\ pc' = "synchronize"
    /\ UNCHANGED <<has_lighting, li_overridden, light_sampler, builds, error,
                   updates, commits, deliveries,
                   cameras, desc_display, desc_display_interval, display_interval,
                   display, i, film, display_film, sampler, pipeline_time, s_idx,
                   sub_i, dispatch_count, sample_id, dispatched, last, close_hist,
                   pending, progress, saved, idle_result, idle_polls>>

\* line 51: command_buffer << compute::synchronize()
Synchronize ==
    /\ pc = "synchronize"
    /\ pending = <<>>
    /\ events' = Log("synchronize")
    /\ pc' = "release"
    /\ UNCHANGED <<has_lighting, li_overridden, light_sampler, builds, error,
                   updates, commits, deliveries,
                   cameras, desc_display, desc_display_interval, display_interval,
                   display, i, film, display_film, sampler, pipeline_time, s_idx,
                   sub_i, dispatch_count, sample_id, dispatched, last, close_hist,
                   pending, progress, saved, idle_result, idle_polls>>

\* line 52: camera->film()->release()
ReleaseOmitted ==
    /\ pc = "release"
    /\ events' = Log("release")
    /\ pc' = "save"
    /\ UNCHANGED <<has_lighting, li_overridden, light_sampler, builds, error,
                   updates, commits, deliveries,
                   cameras, desc_display, desc_display_interval, display_interval,
                   display, i, film, display_film, sampler, pipeline_time, s_idx,
                   sub_i, dispatch_count, sample_id, dispatched, last, close_hist,
                   pending, progress, saved, idle_result, idle_polls>>
Release ==
    /\ pc = "release"
    /\ film' = [film EXCEPT ![i] = "released"]
    /\ events' = Log("release")
    /\ pc' = "save"
    /\ UNCHANGED <<has_lighting, li_overridden, light_sampler, builds, error,
                   updates, commits, deliveries,
                   cameras, desc_display, desc_display_interval, display_interval,
                   display, i, display_film, sampler, pipeline_time, s_idx,
                   sub_i, dispatch_count, sample_id, dispatched, last, close_hist,
                   pending, progress, saved, idle_result, idle_polls>>

\* lines 53-54 and the i++ of line 41: save_image, then the next camera
Save ==
    /\ pc = "save"
    /\ saved' = saved \cup {i}
    /\ events' = Log("save")
    /\ i' = i + 1
    /\ pc' = "render"
    /\ UNCHANGED <<has_lighting, li_overridden, light_sampler, builds, error,
                   updates, commits, deliveries,
                   cameras, desc_display, desc_display_interval, display_interval,
                   display, film, display_film, sampler, pipeline_time, s_idx,
                   sub_i, dispatch_count, sample_id, dispatched, last, close_hist,
                   pending, progress, idle_result, idle_polls>>

\* the host thread
Host ==
    \/ Prepare
    \/ RenderReturn
    \/ DisplayReset
    \/ SamplerReset
    \/ Compile
    \/ PipelineUpdate
    \/ Dispatch
    \/ ShutterDone
    \/ FinalSync
    \/ DrainPoll
    \/ Download
    \/ Synchronize
    \/ Release
    \/ Save

\* the device side of the command stream
Device == RunCallback

Next == Host \/ Device

Spec == Init /\ [][Next]_vars

\* the host thread keeps running and the stream keeps executing
LiveSpec == Init /\ [][Next]_vars /\ WF_vars(Host) /\ WF_vars(Device)

(***************************************************************************)
(* Properties.                                                             *)
(***************************************************************************)
\* the host is past the dispatch loop of camera i and its final barrier
AfterLoop == pc \in {"drain", "download", "synchronize", "release", "save"}
InLoop == pc \in {"for_s", "for_i"}
AllCameras == 0 .. camera_count - 1
RenderCompleted == pc = "done" /\ saved = AllCameras

Min(a, b) == IF a < b THEN a ELSE b
Max(a, b) == IF a > b THEN a ELSE b

\* C1: a camera whose shutter samples sum to S = spp gets exactly S dispatches,
\* with the sample indices 0, 1, ..., S-1 in submission order, and sample_id is
\* S when the loop has ended, whatever the Display does.
C1_ExactlySppDispatches ==
    /\ \A k \in 1 .. Len(dispatched) : dispatched[k].id = k - 1
    /\ (InLoop \/ AfterLoop) => sample_id = Len(dispatched)
    /\ AfterLoop =>
         /\ camera.spp = SumSpp(camera.shutter_samples)
         /\ Len(dispatched) = camera.spp
         /\ sample_id = camera.spp

\* C1 witness: a loop of more than 32 dispatches has ended, with a Display that
\* signaled close and then stopped signaling it
C1_Witness ==
    /\ pc = "drain"
    /\ display
    /\ close_hist = "broken"
    /\ camera.spp > 32
    /\ Len(dispatched) = camera.spp

\* C2: at every dispatch the cadence is display_interval if a Display exists and
\* did not signal close at that dispatch, and 32 otherwise; with no Display and
\* display_interval = 5 it is 32.
C2_CadenceInForce ==
    last.valid =>
      /\ last.cadence = IF display /\ ~last.should_close THEN display_interval ELSE 32
      /\ (~display /\ desc_display_interval = 5) => last.cadence = 32

\* C2 witness: a dispatch with no Display and display_interval = 5
C2_Witness ==
    /\ last.valid
    /\ ~display
    /\ desc_display_interval = 5
    /\ display_interval = 5
    /\ last.cadence = 32

\* C3: once a Display signals close and keeps signaling it, the cadence is 32,
\* the dispatch counter never exceeds the cadence, and every commit comes
\* exactly 32 dispatches after the previous one.
C3_CounterWithinCadenceAfterClose ==
    (display /\ last.valid /\ close_hist = "kept") =>
      /\ last.cadence = 32
      /\ last.count <= last.cadence
      /\ last.committed => last.count = 32

\* the steps of render() for one camera, in order
RenderSteps ==
    IF display
      THEN <<"prepare", "display_reset", "loop_begin", "loop_barrier", "drain",
             "download", "synchronize", "release", "save">>
      ELSE <<"prepare", "loop_begin", "loop_barrier", "drain",
             "download", "synchronize", "release", "save">>
EventsOf(c) == SelectSeq(events, LAMBDA e : e[1] = c)

\* C4: for every camera the steps of render() happen in the order prepare,
\* Display reset (if a Display exists), loop with its final barrier, drain,
\* download, barrier, release, save, each once; the download comes after the
\* loop and its final barrier, release and save after the barrier that
\* follows the download.
C4_StepsInOrder ==
    /\ \A c \in AllCameras :
         LET es == EventsOf(c)
         IN /\ Len(es) <= Len(RenderSteps)
            /\ \A k \in 1 .. Len(es) : es[k][2] = RenderSteps[k]
            /\ c \in saved => Len(es) = Len(RenderSteps)
    /\ pc \in {"synchronize", "release", "save"} =>
         /\ sample_id = camera.spp
         /\ progress.done
         /\ pending = <<>>

\* C4 witness: two cameras rendered with a Display, all steps logged
C4_Witness ==
    /\ pc = "done"
    /\ display
    /\ camera_count = 2
    /\ Len(events) = 2 * Len(RenderSteps)

\* C5: cameras are rendered one after the other: at most one film is between
\* prepare and release, and every operation of a camera comes after the save
\* of the camera before it.
C5_OneCameraAtATime ==
    /\ Cardinality({c \in AllCameras : film[c] = "prepared"}) <= 1
    /\ \A k \in 1 .. Len(events) :
         events[k][1] > 0 =>
           \E j \in 1 .. k - 1 : events[j] = <<events[k][1] - 1, "save">>
    /\ (pc # "render" /\ pc # "done") => saved = 0 .. i - 1
    /\ \A c \in AllCameras : c > i => film[c] = "fresh"

\* C5 witness: the second camera is dispatching, the first one is released
C5_Witness ==
    /\ i = 1
    /\ pc = "for_i"
    /\ Len(dispatched) > 0
    /\ film[0] = "released"
    /\ film[1] = "prepared"
    /\ saved = {0}

\* C6: while a camera's dispatches are submitted the sampler is the one reset
\* with that camera's resolution, pixel count and spp, for every camera.
C6_SamplerResetPerCamera ==
    (InLoop \/ pc = "compile") =>
      /\ sampler.resolution = camera.resolution
      /\ sampler.pixel_count = camera.resolution.x * camera.resolution.y
      /\ sampler.spp = camera.spp
      /\ \E k \in 1 .. Len(events) : events[k] = <<i, "loop_begin">>

\* C6 witness: the second camera, different from the first, has dispatched
C6_Witness ==
    /\ i = 1
    /\ pc = "for_i"
    /\ last.valid
    /\ cameras[1].spp # cameras[2].spp
    /\ cameras[1].resolution # cameras[2].resolution
    /\ sampler.spp = cameras[2].spp

C8_NoUpdateAfterClose ==
    (display /\ last.committed /\ close_hist = "kept") => ~last.update_called

\* C8: a close signal sets the cadence of that dispatch to 32 and nothing else:
\* every commit calls the Display's update iff a Display exists, whether or not
\* close was signaled, and reports progress synchronously iff update answered
\* true, by a deferred callback otherwise.
C8_UpdateAtEveryCommit ==
    /\ last.committed =>
         /\ last.update_called = display
         /\ last.progress_mode = IF last.update_called /\ last.update_result
                                   THEN "sync" ELSE "deferred"
    /\ (display /\ last.valid /\ last.should_close) => last.cadence = 32
    /\ ~last.committed => (~last.update_called /\ last.progress_mode = "none")

\* C8 witness: a commit at which the Display, closed since its first close
\* signal, was still updated
C8_Witness ==
    /\ display
    /\ last.committed
    /\ last.should_close
    /\ close_hist = "kept"
    /\ last.update_called
    /\ last.update_result

\* C9 as stated: the drain loop polls while the Display reports not idle and
\* goes on to the download once it reports idle.
C9_PollsWhileNotIdle ==
    /\ (pc = "drain" /\ idle_result # "none") => idle_result = "false"
    /\ (pc = "download" /\ display) => idle_result = "true"
    /\ (pc = "download" /\ ~display) => idle_result = "none"

\* C9: the drain loop polls exactly while a Display exists and idle() answers
\* true, and goes on to the download when idle() answers false (without any
\* poll when no Display exists).
C9_PollsWhileIdleAnswersTrue ==
    /\ (pc = "drain" /\ idle_result # "none") => (display /\ idle_result = "true")
    /\ (pc = "download" /\ display) => idle_result = "false"
    /\ (pc = "download" /\ ~display) => (idle_result = "none" /\ idle_polls = 0)

\* C9 witness: the download is reached after an even number (at least two) of
\* polls, the last one answering false
C9_Witness ==
    /\ pc = "download"
    /\ display
    /\ idle_result = "false"
    /\ idle_polls = 0

\* C10: display_interval is min(max(v, 1), 65535) of the input v (1 when
\* absent), it fits in 16 bits untruncated, and the cadence is never 0.
C10_IntervalClamped ==
    LET v == IF desc_display_interval = Absent THEN 1 ELSE desc_display_interval
    IN /\ display_interval = Min(Max(v, 1), 65535)
       /\ display_interval \in 1 .. 65535
       /\ clamp(v, ClampLo, ClampHi) = display_interval
       /\ desc_display_interval = 0 => display_interval = 1
       /\ desc_display_interval = 100000 => display_interval = 65535
       /\ desc_display_interval = Absent => display_interval = 1
       /\ last.valid => last.cadence # 0

\* C10 witness: input 100000, a Display, a dispatch at cadence 65535
C10_Witness ==
    /\ desc_display_interval = 100000
    /\ display
    /\ last.valid
    /\ last.cadence = 65535

\* C11: the Display is built at most once, at construction and only if display
\* is enabled; render() never creates, replaces or destroys it, so every camera
\* is reset against the same Display (or none).
C11_DisplayBuiltOnce ==
    /\ display = desc_display
    /\ builds.display = IF desc_display THEN 1 ELSE 0
    /\ builds.display <= 1
    /\ display_film # -1 => (display /\ display_film <= i)
    /\ \A k \in 1 .. Len(events) : events[k][2] = "display_reset" => display

\* C11 witness: the second camera's film has been attached to the one Display
C11_Witness ==
    /\ display
    /\ builds.display = 1
    /\ i = 1
    /\ display_film = 1
    /\ pc = "for_i"

\* C12: after construction the light sampler is null exactly when the pipeline
\* has no lighting (its build runs iff there is lighting), and the sampler has
\* been built exactly once.
C12_LightSamplerIffLighting ==
    /\ (light_sampler = "null") <=> ~has_lighting
    /\ (light_sampler = "instance") <=> has_lighting
    /\ builds.light_sampler = IF has_lighting THEN 1 ELSE 0
    /\ builds.sampler = 1

\* C12 witness: an instance built for a pipeline without lighting has rendered
C12_Witness ==
    /\ ~has_lighting
    /\ light_sampler = "null"
    /\ builds.light_sampler = 0
    /\ builds.sampler = 1
    /\ RenderCompleted

LiArgs == {<<c, f, t>> : c \in {CamA, CamB, CamC}, f \in {0, 1, 63}, t \in {0, 1, 3}}

\* C13: the base Li fails with the same fatal error for every argument and
\* never returns a color; an instance that does not override it never submits
\* a dispatch.
C13_BaseLiIsFatal ==
    /\ \A a \in LiArgs :
         /\ ~Li(a[1], a[2], <<0, 0>>, a[3]).returns
         /\ Li(a[1], a[2], <<0, 0>>, a[3]).error =
              "ProgressiveIntegrator::Li() is not implemented."
    /\ ~li_overridden =>
         /\ dispatched = <<>>
         /\ ~last.valid
         /\ sample_id = 0
         /\ saved = {}
         /\ pc \in {"render", "display_reset", "sampler_reset", "compile", "fatal"}
    /\ pc = "fatal" <=> error # ""
    /\ pc = "fatal" =>
         /\ ~li_overridden
         /\ error = "ProgressiveIntegrator::Li() is not implemented."

\* C13 witness: the loop of an instance without an override has died in Li,
\* with a Display attached and nothing dispatched
C13_Witness ==
    /\ ~li_overridden
    /\ pc = "fatal"
    /\ display
    /\ display_film = 0
    /\ dispatched = <<>>

RECURSIVE SumWeights(_)
SumWeights(ds) == IF ds = <<>> THEN 0 ELSE Head(ds).weight + SumWeights(Tail(ds))
RECURSIVE WeightedSpp(_)
WeightedSpp(ss) ==
    IF ss = <<>> THEN 0 ELSE Head(ss).weight * Head(ss).spp + WeightedSpp(Tail(ss))
\* the shutter-sample loop of camera i has run through, the barrier not yet
LoopRanThrough == pc = "for_s" /\ s_idx > Len(camera.shutter_samples)

\* C14: the weights passed to a camera's dispatches sum to the sum of
\* weight * spp over its shutter samples: shutter sample s contributes exactly
\* s.spp dispatches, each with s.weight.
C14_WeightsSumToWeightedSpp ==
    (AfterLoop \/ LoopRanThrough) =>
      /\ SumWeights(dispatched) = WeightedSpp(camera.shutter_samples)
      /\ \A j \in 1 .. Len(camera.shutter_samples) :
           LET s == camera.shutter_samples[j]
           IN Cardinality({k \in 1 .. Len(dispatched) :
                             /\ dispatched[k].time = s.time
                             /\ dispatched[k].weight = s.weight}) = s.spp

\* C14 witness: a loop over two shutter samples of different weights has ended
C14_Witness ==
    /\ pc = "download"
    /\ Len(camera.shutter_samples) = 2
    /\ camera.shutter_samples[1].weight # camera.shutter_samples[2].weight
    /\ SumWeights(dispatched) > Len(dispatched)

\* the cadence of a loop in which it never changes
ConstantCadence == IF display THEN display_interval ELSE 32
CommitPoints == {commits[j].k : j \in 1 .. Len(commits)}

\* C15: with no Display, or a Display that never signals close, a commit
\* follows the k-th dispatch iff k is a positive multiple of the cadence,
\* whatever the shutter-sample boundaries, so S dispatches give S div c
\* commits; the counter starts at 0 for every camera.
C15_CommitsAtMultiplesOfCadence ==
    (InLoop /\ (~display \/ close_hist = "never")) =>
      /\ \A k \in 1 .. Len(dispatched) :
           (k \in CommitPoints) <=> (k % ConstantCadence = 0)
      /\ Len(commits) = Len(dispatched) \div ConstantCadence
      /\ dispatch_count = Len(dispatched) % ConstantCadence
      /\ dispatched = <<>> => dispatch_count = 0
      /\ LoopRanThrough => Len(commits) = camera.spp \div ConstantCadence

\* C15 witness: the second camera, 6 dispatches at cadence 5 after a first
\* camera of 4 dispatches, has committed once, after its fifth dispatch
C15_Witness ==
    /\ i = 1
    /\ LoopRanThrough
    /\ display
    /\ close_hist = "never"
    /\ display_interval = 5
    /\ cameras[1].spp = 4
    /\ camera.spp = 6
    /\ Len(commits) = 1
    /\ commits[1].k = 5

Syncs(seq) == Cardinality({k \in 1 .. Len(seq) : seq[k].via = "sync"})
Callbacks(seq) == Cardinality({k \in 1 .. Len(seq) : seq[k].via = "callback"})
CommitsOfMode(m) == Cardinality({j \in 1 .. Len(commits) : commits[j].mode = m})

\* C16: every commit makes exactly one progress update, carrying the sample
\* index so far over spp: at once iff a Display exists and its update answered
\* true, as a deferred callback otherwise; with no Display always deferred.
C16_OneProgressUpdatePerCommit ==
    InLoop =>
      /\ \A j \in 1 .. Len(commits) :
           LET cm == commits[j]
           IN /\ cm.p = [num |-> cm.k, den |-> camera.spp]
              /\ cm.mode \in {"sync", "deferred"}
              /\ (cm.mode = "sync") <=> (display /\ cm.called /\ cm.consumed)
              /\ ~display => cm.mode = "deferred"
      /\ Syncs(deliveries) = 1 + CommitsOfMode("sync")
      /\ Callbacks(deliveries) + Len(pending) = CommitsOfMode("deferred")
      /\ last.committed =>
           /\ last.p = [num |-> sample_id, den |-> camera.spp]
           /\ last.p = commits[Len(commits)].p

\* C16 witness: a Display, one commit reported at once and one by a callback
C16_Witness ==
    /\ InLoop
    /\ display
    /\ CommitsOfMode("sync") >= 1
    /\ CommitsOfMode("deferred") >= 1
    /\ last.committed
    /\ last.progress_mode = "deferred"
    /\ last.update_called

\* C17: after every dispatch that leaves the printer non-empty a retrieval is
\* enqueued right after the dispatch and before any commit action, commit or
\* not; with an empty printer none is enqueued.
C17_RetrievalAtEveryDispatch ==
    last.valid =>
      /\ last.submitted[1] = "dispatch"
      /\ last.retrieved = last.printer_nonempty
      /\ last.printer_nonempty =>
           (Len(last.submitted) >= 2 /\ last.submitted[2] = "retrieve")
      /\ ~last.printer_nonempty =>
           \A k \in 1 .. Len(last.submitted) : last.submitted[k] # "retrieve"

\* C17 witness: a retrieval after a dispatch that did not commit
C17_Witness ==
    /\ last.valid
    /\ last.printer_nonempty
    /\ ~last.committed
    /\ last.submitted = <<"dispatch", "retrieve">>

ShutterTimes(n) == [j \in 1 .. n |-> camera.shutter_samples[j].time]

\* C18: the pipeline update to s.time is submitted once per shutter sample, in
\* order and before the dispatches of s (also when s has no sub-sample), so
\* every dispatch carries the time and weight of the shutter sample updated
\* last before it.
C18_UpdateBeforeDispatches ==
    InLoop =>
      /\ updates = ShutterTimes(IF pc = "for_i" THEN s_idx ELSE s_idx - 1)
      /\ LoopRanThrough => updates = ShutterTimes(Len(camera.shutter_samples))
      /\ \A k \in 1 .. Len(dispatched) :
           /\ dispatched[k].pipeline_time = dispatched[k].time
           /\ \E j \in 1 .. Len(updates) :
                /\ camera.shutter_samples[j].time = dispatched[k].pipeline_time
                /\ camera.shutter_samples[j].weight = dispatched[k].weight
      /\ (pc = "for_i" /\ sub_i > 0) => last.time = pipeline_time

\* C18 witness: a dispatch of the third shutter sample, after the update of the
\* second, which has no sub-sample
C18_Witness ==
    /\ pc = "for_i"
    /\ s_idx = 3
    /\ camera.shutter_samples[2].spp = 0
    /\ updates = <<0, 1, 2>>
    /\ sub_i > 0
    /\ last.time = 2

\* C19: every deferred progress callback has run before progress is marked
\* done and before the loop returns: none runs on a completed ProgressBar and
\* none is pending outside the loop.
C19_CallbacksRunBeforeDone ==
    /\ progress.done => pending = <<>>
    /\ ~progress.late
    /\ ~InLoop => pending = <<>>

\* C19 witness: a loop without Display, whose progress was only reported by
\* callbacks, has returned with the last report delivered
C19_Witness ==
    /\ pc = "drain"
    /\ ~display
    /\ progress.done
    /\ progress.value.num >= 32
    /\ pending = <<>>

\* p <= q for fractions
FracLeq(p, q) == p.num * q.den <= q.num * p.den

====
